---- MODULE Spec2Model ----
(***************************************************************************)
(* Subscription lifecycle and onboarding of the PNP Television bot         *)
(* (hybrid variant): the record store of hybrid_database.py, the handlers  *)
(* of hybrid_handlers.py and the command routing of hybrid_main.py.        *)
(*                                                                         *)
(* Time.  One tick is 1/DayTicks of a day.  `now` is the UTC clock, which  *)
(* is what SQLite's CURRENT_TIMESTAMP reads.  Python's datetime.now() is   *)
(* the naive local time, now + tz.  start_date and end_date are stored as  *)
(* the text of the local datetime, and SQLite compares that text with the  *)
(* text of CURRENT_TIMESTAMP, so the SQL comparisons below compare a local *)
(* time with a UTC time.                                                   *)
(*                                                                         *)
(* Not modelled: the users' timestamps and the message texts.              *)
(* A store call fails on a foreign key; create_user, get_user, the insert  *)
(* of create_subscription and the update of expire_subscriptions may also  *)
(* fail for any other reason.  log_audit_event fails on its foreign keys.  *)
(*                                                                         *)
(* users, subscriptions, audit_log and analytics_events are the tables;    *)
(* admin_user_id is the configured administrator (NoId when none) and      *)
(* enable_analytics the analytics switch.  users is the users table keyed  *)
(* by its UNIQUE column telegram_id, which is all the handlers read of it. *)
(* audit_seq is the row sqlite_sequence keeps for audit_log: the largest   *)
(* id the table ever held, which AUTOINCREMENT never hands out again.      *)
(* boot is the position of main() in its startup sequence, with the        *)
(* configuration and the tables of the database file it started on; run is *)
(* the position of run_bot_with_retry in its loop.                         *)
(* users_table is the same table row by row, with its rowids and a         *)
(* profile field; lock is db_manager.lock and txn the transaction each     *)
(* thread has open.  These three belong to the specification of the        *)
(* record store under concurrent callers; the handlers' specifications     *)
(* leave them as they are.                                                 *)
(*                                                                         *)
(* restricted, stage and last are history: the code stores none of them.   *)
(* restricted holds the users who answered the age gate with no, stage is  *)
(* the onboarding state the events a user sent lead to by the transition   *)
(* table, last is the latest reply.                                        *)
(***************************************************************************)
EXTENDS Integers, Sequences, FiniteSets, TLC

VARIABLES now, tz, admin_user_id, users, subscriptions, audit_log, restricted, last,
          enable_analytics, analytics_events, stage, users_table, lock, txn,
          audit_seq, boot, run

vars == <<now, tz, admin_user_id, users, subscriptions, audit_log, restricted, last,
          enable_analytics, analytics_events, stage, users_table, lock, txn,
          audit_seq, boot, run>>

\* The record store seen by concurrent callers.
storeVars == <<users_table, lock, txn>>

\* ---------------------------------------------------------------- bounds
MaxTime == 2
MaxSubs == 2
DayTicks == 2
MaxEvents == 2
MaxRowid == 3
MaxStoreRows == 1
\* The audit entries the maintenance runs hold at once, and the largest id.
MaxAudit == 2
MaxAuditSeq == 3
\* The largest MAX_RETRIES the retry loop is run with.
MaxRetries == 3

\* ------------------------------------------------------------- constants
\* Python's None for an id; no row id and no Telegram id is 0.
NoId == 0
\* grant_access: the duration when the plan is not in PLANS and no days are given.
DefaultDays == 30

UserIds == {1, 2}
\* The offsets of the local clock from UTC, in ticks (less than a day).
TimeZones == {-1, 0, 1}
\* What Telegram supplies as the user's language_code ("" is None).
TelegramLangs == {"", "en"}
\* The languages on the buttons of show_language_selection.
ButtonLangs == {"es", "en"}
\* The optional third argument of /grant; NoDays is its absence.
NoDays == -1
\* A third argument that int() rejects.
NotANumber == -2
\* The plan and days arguments an administrator types: a plan of PLANS with and
\* without days, and a plan that is not in PLANS.
TypedGrants == {<<"month", NoDays>>, <<"month", 1>>, <<"month", 0>>, <<"quarter", NoDays>>}

PlanIds == {"week", "month", "3month", "halfyear", "year", "lifetime"}

PlanDays(plan) ==
    CASE plan = "week" -> 7
      [] plan = "month" -> 30
      [] plan = "3month" -> 90
      [] plan = "halfyear" -> 180
      [] plan = "year" -> 365
      [] plan = "lifetime" -> 9999

\* ------------------------------------------------------------------ time
\* datetime.now(): the naive local time.
LocalNow == now + tz
\* SQLite's CURRENT_TIMESTAMP: UTC.
CURRENT_TIMESTAMP == now
\* A duration taken in ticks instead of days.
timedelta_ticks(d) == d

\* timedelta(days=d)
timedelta(d) == d * DayTicks

\* ----------------------------------------------------------------- store
SeqToSet(s) == {s[i] : i \in 1..Len(s)}

\* AUTOINCREMENT: one more than the largest rowid of the table.
NextRowid(table) ==
    IF table = <<>> THEN 1
    ELSE (CHOOSE m \in {r.id : r \in SeqToSet(table)} :
            \A r \in SeqToSet(table) : r.id <= m) + 1

\* Foreign keys not enforced.
ForeignKeyOff(user_id) == TRUE

\* FOREIGN KEY (...) REFERENCES users (telegram_id), PRAGMA foreign_keys = ON
ForeignKeyOk(user_id) == user_id \in DOMAIN users

\* create_subscription: the INSERT; NoId when it raises.
create_subscription_id(user_id, storage_ok) ==
    IF storage_ok /\ ForeignKeyOk(user_id) THEN NextRowid(subscriptions) ELSE NoId

\* A renewal that extends the user's newest row in place instead of inserting.
create_subscription_extend(user_id, plan_type, start_date, end_date, payment_amount, storage_ok) ==
    IF create_subscription_id(user_id, storage_ok) = NoId THEN subscriptions
    ELSE IF \E i \in 1..Len(subscriptions) : subscriptions[i].user_id = user_id
    THEN [i \in 1..Len(subscriptions) |->
            IF subscriptions[i].user_id = user_id
            THEN [subscriptions[i] EXCEPT !.end_date = end_date, !.status = "active"]
            ELSE subscriptions[i]]
    ELSE Append(subscriptions,
                [id |-> create_subscription_id(user_id, storage_ok),
                 user_id |-> user_id, plan_type |-> plan_type, status |-> "active",
                 start_date |-> start_date, end_date |-> end_date,
                 payment_amount |-> payment_amount])

create_subscription_rows(user_id, plan_type, start_date, end_date, payment_amount, storage_ok) ==
    IF create_subscription_id(user_id, storage_ok) = NoId THEN subscriptions
    ELSE Append(subscriptions,
                [id |-> create_subscription_id(user_id, storage_ok),
                 user_id |-> user_id, plan_type |-> plan_type, status |-> "active",
                 start_date |-> start_date, end_date |-> end_date,
                 payment_amount |-> payment_amount])

\* The newest matching row instead of the one that ends last.
get_active_subscription_newest(user_id) ==
    LET matching == {r \in SeqToSet(subscriptions) :
                        /\ r.user_id = user_id
                        /\ r.status = "active"
                        /\ r.end_date > CURRENT_TIMESTAMP}
    IN {r \in matching : \A s \in matching : s.id <= r.id}

\* get_active_subscription: the rows ORDER BY end_date DESC LIMIT 1 may return
\* (more than one when end dates tie); the empty set is None.
get_active_subscription(user_id) ==
    LET matching == {r \in SeqToSet(subscriptions) :
                        /\ r.user_id = user_id
                        /\ r.status = "active"
                        /\ r.end_date > CURRENT_TIMESTAMP}
    IN {r \in matching : \A s \in matching : s.end_date <= r.end_date}

\* The row the query returned taken as active without the time comparison.
is_user_subscribed_by_status(user_id) ==
    IF get_active_subscription(user_id) = {}
    THEN {[is_active |-> FALSE, subscription |-> NoId]}
    ELSE {[is_active |-> TRUE, subscription |-> r.id] :
            r \in get_active_subscription(user_id)}

\* is_user_subscribed: the pairs (is_active, subscription) it may return.
is_user_subscribed(user_id) ==
    IF get_active_subscription(user_id) = {}
    THEN {[is_active |-> FALSE, subscription |-> NoId]}
    ELSE {[is_active |-> LocalNow < r.end_date, subscription |-> r.id] :
            r \in get_active_subscription(user_id)}

\* improved_bot.is_user_active on a record of users.json; subscription_until
\* is << >> when absent and <<t>> when it holds the time t.
is_user_active(user_data) ==
    IF ~user_data.subscription_active THEN FALSE
    ELSE IF user_data.subscription_until = << >> THEN FALSE
    ELSE LocalNow < user_data.subscription_until[1]

\* The UPDATE without its status filter.
ExpireMatchesAnyStatus(r) == r.end_date <= CURRENT_TIMESTAMP

\* expire_subscriptions: the WHERE clause of the UPDATE.
ExpireMatches(r) == r.status = "active" /\ r.end_date <= CURRENT_TIMESTAMP

expire_subscriptions_rows ==
    [i \in 1..Len(subscriptions) |->
        IF ExpireMatches(subscriptions[i])
        THEN [subscriptions[i] EXCEPT !.status = "expired"]
        ELSE subscriptions[i]]

expire_subscriptions_count ==
    Cardinality({i \in 1..Len(subscriptions) : ExpireMatches(subscriptions[i])})

\* The number of due rows returned although the UPDATE raised.
expire_subscriptions_unguarded(storage_ok) == expire_subscriptions_count

\* expire_subscriptions: rows_affected, or 0 from the except clause.
expire_subscriptions(storage_ok) ==
    IF storage_ok THEN expire_subscriptions_count ELSE 0

\* get_expiring_subscriptions: future_date is datetime.now() + days_ahead days,
\* the lower end of the window is CURRENT_TIMESTAMP, and the JOIN keeps the rows
\* whose user is in users.
get_expiring_subscriptions(days_ahead) ==
    {s \in SeqToSet(subscriptions) :
        /\ s.user_id \in DOMAIN users
        /\ s.status = "active"
        /\ s.end_date <= LocalNow + timedelta(days_ahead)
        /\ s.end_date > CURRENT_TIMESTAMP}

\* log_audit_event: TRUE when the row was inserted; the failure is swallowed.
log_audit_event_ok(user_id, admin_id, storage_ok) ==
    storage_ok /\ ForeignKeyOk(user_id) /\ ForeignKeyOk(admin_id)

log_audit_event_rows(user_id, admin_id, action, plan_type, days, storage_ok) ==
    IF log_audit_event_ok(user_id, admin_id, storage_ok)
    THEN Append(audit_log,
                [id |-> audit_seq + 1, user_id |-> user_id, admin_id |-> admin_id,
                 action |-> action, plan_type |-> plan_type, days |-> days,
                 created_at |-> CURRENT_TIMESTAMP])
    ELSE audit_log

\* safe_user_update: language_code or 'es', then create_user's INSERT OR
\* REPLACE of the whole row.
create_user_rows(telegram_id, language_code) ==
    (telegram_id :> [language_code |-> IF language_code = "" THEN "es" ELSE language_code,
                     is_admin |-> FALSE, is_banned |-> FALSE]) @@ users

\* A plain INSERT in place of INSERT OR REPLACE.
create_user_insert(table, telegram_id, username) ==
    Append(table, [id |-> NextRowid(table), telegram_id |-> telegram_id,
                   username |-> username, is_admin |-> FALSE, is_banned |-> FALSE,
                   created_at |-> CURRENT_TIMESTAMP])

\* create_user on the rows of the table: INSERT OR REPLACE deletes the row that
\* holds the telegram_id (UNIQUE) and inserts the new one under a new rowid.
\* The flags are those of the User that safe_user_update builds (the defaults),
\* and created_at, which the statement does not list, takes its DEFAULT.
create_user_table(table, telegram_id, username) ==
    Append(SelectSeq(table, LAMBDA r : r.telegram_id # telegram_id),
           [id |-> NextRowid(table), telegram_id |-> telegram_id,
            username |-> username, is_admin |-> FALSE, is_banned |-> FALSE,
            created_at |-> CURRENT_TIMESTAMP])

\* app.translations.set_user_language: persists the chosen locale.
set_user_language_rows(telegram_id, language) ==
    [users EXCEPT ![telegram_id].language_code = language]

\* sqlite_sequence after an insert into audit_log was attempted.
audit_seq_after(table) ==
    IF Len(table) > Len(audit_log) THEN audit_seq + 1 ELSE audit_seq

\* log_audit_event: what the call returns; its except clause turns every
\* failure into False.
log_audit_event(user_id, admin_id, storage_ok) ==
    IF log_audit_event_ok(user_id, admin_id, storage_ok) THEN "True" ELSE "False"

\* The analytics insert written whatever the switch says.
log_analytics_event_rows_always(table, user_id, event_type, storage_ok) ==
    IF storage_ok /\ ForeignKeyOk(user_id)
    THEN Append(table, [id |-> NextRowid(table), user_id |-> user_id,
                        event_type |-> event_type, created_at |-> CURRENT_TIMESTAMP])
    ELSE table

\* log_analytics_event: the table after the call.  Nothing is written when
\* analytics is switched off; the insert fails on its foreign key or for any
\* other reason.
log_analytics_event_rows(table, user_id, event_type, storage_ok) ==
    IF ~enable_analytics THEN table
    ELSE IF storage_ok /\ ForeignKeyOk(user_id)
    THEN Append(table, [id |-> NextRowid(table), user_id |-> user_id,
                        event_type |-> event_type, created_at |-> CURRENT_TIMESTAMP])
    ELSE table

\* log_analytics_event: what the call returns; its except clause turns every
\* failure into False.
log_analytics_event(user_id, storage_ok) ==
    IF ~enable_analytics THEN "True"
    ELSE IF storage_ok /\ ForeignKeyOk(user_id) THEN "True" ELSE "False"

\* The outcomes of the analytics insert a handler may meet.
AnalyticsOutcomes == IF enable_analytics THEN BOOLEAN ELSE {TRUE}

\* Room in analytics_events for n more rows.
AnalyticsRoom(n) == ~enable_analytics \/ Len(analytics_events) + n <= MaxEvents

\* The transition table of the onboarding state machine.
OnboardingNext(state, event) ==
    CASE state = "new" /\ event = "languageChosen" -> "language_selected"
      [] state = "language_selected" /\ event = "ageConfirmed" -> "age_verified"
      [] state = "language_selected" /\ event = "ageDeclined" -> "age_restricted"
      [] state = "age_verified" /\ event = "termsAccepted" -> "ready"
      [] OTHER -> state

\* ------------------------------------------------------ the event record
\* What the handler that ran last since the clock advanced answered: the
\* handler, the user it answered, the screen or message, whether the main menu
\* shows an active subscription, the duration a grant reply names, the
\* sweeper's count, whether the sweeper's pass follows another one, the user
\* a grant names, and what the grant's call of log_audit_event returned.
NoEvent ==
    [handler |-> "none", actor |-> NoId, screen |-> "none", subscribed |-> FALSE,
     days |-> 0, count |-> 0, again |-> FALSE, target |-> NoId, audit |-> "none"]

Reply(handler, actor, screen) ==
    [NoEvent EXCEPT !.handler = handler, !.actor = actor, !.screen = screen]

\* The threads that call the record store, and a thread with no call open.
Threads == {1, 2}

Idle == [op |-> "idle", user_id |-> NoId, username |-> ""]

\* The usernames a Telegram profile may carry.
Usernames == {"a", "b"}

StoreCall(op, user_id, username) ==
    [op |-> op, user_id |-> user_id, username |-> username]

\* The mutating calls that go through DatabaseManager.execute_query.
ExecuteQueryCalls ==
    {StoreCall("create_user", u, n) : u \in UserIds, n \in Usernames}
      \cup {StoreCall(op, u, "") :
               op \in {"log_audit_event", "log_analytics_event"}, u \in UserIds}
      \cup {StoreCall("expire_subscriptions", NoId, "")}

\* create_subscription opens its connection with db_manager.get_connection().
GetConnectionCalls == {StoreCall("create_subscription", u, "") : u \in UserIds}

\* -------------------------------------------------------------- startup
\* The tables create_tables creates, in the order of its dictionary.
SchemaTables ==
    <<"users", "user_settings", "subscriptions", "payments", "bot_settings",
      "audit_log", "analytics_events">>

\* test_database_connection: expected_tables
ExpectedTables == {"users", "subscriptions", "payments"}

\* TELEGRAM_TOKEN as BotConfig.validate tells it apart: empty, shorter than 40
\* characters, or neither.
Tokens == {"missing", "short", "valid"}

\* main() not started.
NoBoot == [pc |-> "off", token |-> "valid", at_start |-> {}, tables |-> {},
           failed |-> "none"]

\* run_bot_with_retry not called.
NoRun == [pc |-> "off", max_retries |-> 0, attempt |-> 0, started |-> 0,
          failed |-> 0, slept |-> 0, outcome |-> "none", result |-> "none"]

\* ------------------------------------------------------------------ Init
\* The tables are empty; analytics is switched off (ENABLE_ANALYTICS=false).
Init ==
    /\ now = 0
    /\ tz \in TimeZones
    /\ admin_user_id \in {NoId, 1}
    /\ users = << >>
    /\ subscriptions = << >>
    /\ audit_log = << >>
    /\ audit_seq = 0
    /\ boot = NoBoot
    /\ run = NoRun
    /\ restricted = {}
    /\ last = NoEvent
    /\ enable_analytics = FALSE
    /\ analytics_events = << >>
    /\ stage = [u \in UserIds |-> "new"]
    /\ users_table = << >>
    /\ lock = NoId
    /\ txn = [t \in Threads |-> Idle]

\* --------------------------------------------------------------- actions
Tick ==
    /\ now < MaxTime
    /\ now' = now + 1
    /\ last' = NoEvent
    /\ UNCHANGED <<tz, boot, run, admin_user_id, users, subscriptions, audit_log, audit_seq, restricted,
                   enable_analytics, analytics_events, stage, storeVars>>

\* start(): the onboarding test on the row safe_user_update returned.
StartScreen(user_data) ==
    IF user_data.language_code = "" \/ user_data.language_code = "unknown"
    THEN "language_gate"
    ELSE "main_menu"

\* handle_terms_acceptance logs terms_accepted before it calls start().
StartEvents(table, handler, u, analytics_ok) ==
    log_analytics_event_rows(
        IF handler = "terms_accept"
        THEN log_analytics_event_rows(table, u, "terms_accepted", analytics_ok)
        ELSE table,
        u, "start_command", analytics_ok)

\* start(): the analytics event, safe_user_update (create_user, then
\* get_user), then the language gate or the main menu.  failed names the store
\* call that raises, if any.
start(handler, u, telegram_lang, failed) ==
    /\ AnalyticsRoom(IF handler = "terms_accept" THEN 2 ELSE 1)
    /\ \E analytics_ok \in AnalyticsOutcomes :
         analytics_events' = StartEvents(analytics_events, handler, u, analytics_ok)
    /\ users' = IF failed = "create_user" THEN users ELSE create_user_rows(u, telegram_lang)
    /\ IF failed # "none" THEN last' = Reply(handler, u, "error")
       ELSE IF StartScreen(users'[u]) = "language_gate"
       THEN last' = Reply(handler, u, "language_gate")
       ELSE \E r \in is_user_subscribed(u) :
              last' = [Reply(handler, u, "main_menu") EXCEPT !.subscribed = r.is_active]
    /\ UNCHANGED <<now, tz, boot, run, admin_user_id, subscriptions, audit_log, audit_seq, restricted,
                   enable_analytics, storeVars>>

StoreCalls == {"none", "create_user", "get_user"}

StartCommand(langs) ==
    \E u \in UserIds, telegram_lang \in langs, failed \in StoreCalls :
        /\ start("start", u, telegram_lang, failed)
        /\ stage' = stage

\* /start from any user, with and without a Telegram language.
Start == StartCommand(TelegramLangs)

\* /start as the ledger sees it: the ledger reads no locale, so its first
\* contacts carry no Telegram language.
FirstContact == StartCommand({""})

\* handle_language_selection for one user and one button.
language_selection(u, language) ==
    /\ AnalyticsRoom(1)
    /\ IF u \in DOMAIN users
       THEN /\ users' = set_user_language_rows(u, language)
            /\ \E analytics_ok \in AnalyticsOutcomes :
                 analytics_events' = log_analytics_event_rows(
                     analytics_events, u, "language_selected", analytics_ok)
            /\ last' = Reply("set_lang", u, "age_gate")
            /\ stage' = [stage EXCEPT ![u] = OnboardingNext(@, "languageChosen")]
       ELSE /\ users' = users
            /\ analytics_events' = analytics_events
            /\ last' = Reply("set_lang", u, "error")
            /\ stage' = stage
    /\ UNCHANGED <<now, tz, boot, run, admin_user_id, subscriptions, audit_log, audit_seq, restricted,
                   enable_analytics, storeVars>>

\* handle_language_selection
handle_language_selection ==
    \E u \in UserIds, language \in ButtonLangs : language_selection(u, language)

\* handle_age_verification
AgeScreen(verification) ==
    IF verification = "yes" THEN "terms_gate" ELSE "age_restricted"

\* handle_age_verification for one user and one button.
age_verification(u, verification) ==
    /\ AnalyticsRoom(1)
    /\ \E analytics_ok \in AnalyticsOutcomes :
         analytics_events' = log_analytics_event_rows(
             analytics_events, u, "age_verification", analytics_ok)
    /\ last' = Reply("age_verify", u, AgeScreen(verification))
    /\ restricted' = IF verification = "no" THEN restricted \cup {u} ELSE restricted
    /\ stage' = [stage EXCEPT ![u] = OnboardingNext(@, IF verification = "yes"
                                                       THEN "ageConfirmed"
                                                       ELSE "ageDeclined")]
    /\ UNCHANGED <<now, tz, boot, run, admin_user_id, users, subscriptions, audit_log, audit_seq,
                   enable_analytics, storeVars>>

handle_age_verification ==
    \E u \in UserIds, verification \in {"yes", "no"} : age_verification(u, verification)

\* handle_terms_acceptance for one user: the analytics event, the completion
\* notice, then start().
terms_acceptance(u, telegram_lang, failed) ==
    /\ start("terms_accept", u, telegram_lang, failed)
    /\ stage' = [stage EXCEPT ![u] = OnboardingNext(@, "termsAccepted")]

handle_terms_acceptance ==
    \E u \in UserIds, telegram_lang \in TelegramLangs, failed \in StoreCalls :
        terms_acceptance(u, telegram_lang, failed)

\* The /grant handler registered without its user filter.
GrantRoutedUnfiltered(actor) == admin_user_id # NoId

\* register_handlers_safely: the /grant handler exists only when an administrator
\* is configured, behind Filters.user(user_id=config.admin_user_id).
GrantRouted(actor) == admin_user_id # NoId /\ actor = admin_user_id

\* grant_access: days defaults to the plan's duration, or DefaultDays.
GrantDays(plan_type, typed_days) ==
    IF typed_days # NoDays THEN typed_days
    ELSE IF plan_type \in PlanIds THEN PlanDays(plan_type) ELSE DefaultDays

\* The audit entry attempted whatever the insert returned.
GrantAuditsAlways(subscription_id) == TRUE

\* grant_access: the audit entry is attempted when the insert returned an id.
GrantAudits(subscription_id) == subscription_id # NoId

\* grant_access: the reply, which depends on the insert alone.
GrantScreen(subscription_id, audited) ==
    IF subscription_id # NoId THEN "granted" ELSE "grant_failed"

\* grant_access, from the computation of days to the reply.  failed names the
\* store call that raises for a reason other than a foreign key, if any.
grant_access_body(actor, user_id, plan_type, typed_days, failed) ==
    LET days == GrantDays(plan_type, typed_days)
        start_date == LocalNow
        end_date == start_date + timedelta(days)
        subscription_id == create_subscription_id(user_id, failed # "insert")
        audited == GrantAudits(subscription_id)
                     /\ log_audit_event_ok(user_id, actor, failed # "audit")
    IN /\ subscriptions' = create_subscription_rows(user_id, plan_type, start_date,
                                                    end_date, 0, failed # "insert")
       /\ audit_log' = IF GrantAudits(subscription_id)
                       THEN log_audit_event_rows(user_id, actor, "grant_access",
                                                 plan_type, days, failed # "audit")
                       ELSE audit_log
       /\ audit_seq' = audit_seq_after(audit_log')
       /\ last' = [Reply("grant", actor, GrantScreen(subscription_id, audited))
                     EXCEPT !.days = IF subscription_id # NoId THEN days ELSE 0,
                            !.target = user_id,
                            !.audit = IF GrantAudits(subscription_id)
                                      THEN log_audit_event(user_id, actor, failed # "audit")
                                      ELSE "none"]
       /\ UNCHANGED <<now, tz, boot, run, admin_user_id, users, restricted,
                      enable_analytics, analytics_events, stage, storeVars>>

\* grant_access's except clause: reply_text(f"Error: {e}").
GrantExceptionScreen == "exception_text"

\* grant_access: int(context.args[2]) raises ValueError before any store call
\* and the except clause answers; otherwise the body above runs.
grant_access(actor, user_id, plan_type, typed_days, failed) ==
    IF typed_days = NotANumber
    THEN /\ last' = [Reply("grant", actor, GrantExceptionScreen) EXCEPT !.target = user_id]
         /\ UNCHANGED <<now, tz, boot, run, admin_user_id, users, subscriptions, audit_log, audit_seq,
                        restricted, enable_analytics, analytics_events, stage, storeVars>>
    ELSE grant_access_body(actor, user_id, plan_type, typed_days, failed)

GrantStoreCalls == {"none", "insert"}

\* A /grant command with at least two arguments, from any actor.
GrantCommand ==
    \E actor \in UserIds, user_id \in UserIds, args \in TypedGrants,
       failed \in GrantStoreCalls :
        /\ Len(subscriptions) < MaxSubs
        /\ IF GrantRouted(actor)
           THEN grant_access(actor, user_id, args[1], args[2], failed)
           ELSE /\ last' = Reply("grant_unrouted", actor, "none")
                /\ UNCHANGED <<now, tz, boot, run, admin_user_id, users, subscriptions, audit_log, audit_seq,
                               restricted, enable_analytics, analytics_events, stage,
                               storeVars>>

\* One pass of the expiration sweeper: expire_subscriptions().
ExpireTick ==
    \E storage_ok \in BOOLEAN :
        /\ subscriptions' = IF storage_ok THEN expire_subscriptions_rows ELSE subscriptions
        /\ last' = [Reply("expire", NoId, IF storage_ok THEN "expired" ELSE "expire_failed")
                      EXCEPT !.count = expire_subscriptions(storage_ok),
                             !.again = (last.handler = "expire" /\ last.screen = "expired")]
        /\ UNCHANGED <<now, tz, boot, run, admin_user_id, users, audit_log, audit_seq, restricted,
                       enable_analytics, analytics_events, stage, storeVars>>

\* ------------------------------------------- the record store, by thread
\* The tables have room for the row the call may add.
StoreRoom(call) ==
    CASE call.op = "create_user" -> NextRowid(users_table) <= MaxRowid
      [] call.op = "log_audit_event" -> Len(audit_log) < MaxStoreRows
      [] call.op = "log_analytics_event" -> Len(analytics_events) < MaxStoreRows
      [] call.op = "create_subscription" ->
           Len(subscriptions)
             + Cardinality({t \in Threads : txn[t].op = "create_subscription"})
             < MaxStoreRows
      [] OTHER -> TRUE

\* execute_query: `with self.lock`, then the connection and the statement.
execute_query_enter ==
    \E t \in Threads, call \in ExecuteQueryCalls :
        /\ txn[t] = Idle
        /\ lock = NoId
        /\ StoreRoom(call)
        /\ lock' = t
        /\ txn' = [txn EXCEPT ![t] = call]
        /\ UNCHANGED <<now, tz, boot, run, admin_user_id, users, subscriptions, audit_log, audit_seq,
                       restricted, last, enable_analytics, analytics_events, stage,
                       users_table>>

\* execute_query: commit or exception, and the lock is released.
execute_query_leave ==
    \E t \in Threads, storage_ok \in BOOLEAN :
        LET call == txn[t] IN
        /\ call.op \in {c.op : c \in ExecuteQueryCalls}
        /\ users_table' = IF call.op = "create_user" /\ storage_ok
                          THEN create_user_table(users_table, call.user_id, call.username)
                          ELSE users_table
        /\ users' = IF call.op = "create_user" /\ storage_ok
                    THEN create_user_rows(call.user_id, "")
                    ELSE users
        /\ audit_log' = IF call.op = "log_audit_event"
                        THEN log_audit_event_rows(call.user_id, call.user_id, "store",
                                                  "", 0, storage_ok)
                        ELSE audit_log
        /\ audit_seq' = audit_seq_after(audit_log')
        /\ analytics_events' = IF call.op = "log_analytics_event"
                               THEN log_analytics_event_rows(analytics_events, call.user_id,
                                                             "store", storage_ok)
                               ELSE analytics_events
        /\ subscriptions' = IF call.op = "expire_subscriptions" /\ storage_ok
                            THEN expire_subscriptions_rows
                            ELSE subscriptions
        /\ lock' = NoId
        /\ txn' = [txn EXCEPT ![t] = Idle]
        /\ UNCHANGED <<now, tz, boot, run, admin_user_id, restricted, last, enable_analytics, stage>>

\* create_subscription: `with db_manager.get_connection() as conn`.
create_subscription_enter ==
    \E t \in Threads, call \in GetConnectionCalls :
        /\ txn[t] = Idle
        /\ StoreRoom(call)
        /\ txn' = [txn EXCEPT ![t] = call]
        /\ UNCHANGED <<now, tz, boot, run, admin_user_id, users, subscriptions, audit_log, audit_seq,
                       restricted, last, enable_analytics, analytics_events, stage,
                       users_table, lock>>

\* create_subscription: the insert and its commit, or the exception.
create_subscription_leave ==
    \E t \in Threads, storage_ok \in BOOLEAN :
        /\ txn[t].op = "create_subscription"
        /\ subscriptions' = create_subscription_rows(txn[t].user_id, "month", LocalNow,
                                                     LocalNow, 0, storage_ok)
        /\ txn' = [txn EXCEPT ![t] = Idle]
        /\ UNCHANGED <<now, tz, boot, run, admin_user_id, users, audit_log, audit_seq, restricted, last,
                       enable_analytics, analytics_events, stage, users_table, lock>>

\* The record store starts as Init says, in a UTC process with analytics on.
InitStore ==
    /\ now = 0
    /\ tz = 0
    /\ admin_user_id = NoId
    /\ users = << >>
    /\ subscriptions = << >>
    /\ audit_log = << >>
    /\ audit_seq = 0
    /\ boot = NoBoot
    /\ run = NoRun
    /\ restricted = {}
    /\ last = NoEvent
    /\ enable_analytics = TRUE
    /\ analytics_events = << >>
    /\ stage = [u \in UserIds |-> "new"]
    /\ users_table = << >>
    /\ lock = NoId
    /\ txn = [t \in Threads |-> Idle]

NextStore ==
    \/ execute_query_enter
    \/ execute_query_leave
    \/ create_subscription_enter
    \/ create_subscription_leave

\* The users table under re-contact while the clock advances.
NextProfile == Tick \/ execute_query_enter \/ execute_query_leave

SpecProfile == InitStore /\ [][NextProfile]_vars

SpecStore == InitStore /\ [][NextStore]_vars

\* The ledger: the clock, first contact, grants and the sweeper.
Next ==
    \/ Tick
    \/ FirstContact
    \/ GrantCommand
    \/ ExpireTick

Spec == Init /\ [][Next]_vars

\* The onboarding flow.  Its callbacks write no subscription and no audit
\* entry, and the ledger's actions write no locale.
NextOnboarding ==
    \/ Start
    \/ handle_language_selection
    \/ handle_age_verification
    \/ handle_terms_acceptance

SpecOnboarding == Init /\ [][NextOnboarding]_vars

\* ------------------------------------------------------------ the router
\* A callback token is the sequence of the pieces its text has between
\* underscores: "set_lang_es" is <<"set", "lang", "es">>.
CallbackTokens ==
    {<<"set", "lang", "es">>, <<"set", "lang", "en">>,
     <<"age", "verify", "yes">>, <<"age", "verify", "no">>,
     <<"terms", "accept">>, <<"terms", "decline">>,
     <<"home", "plans">>, <<"home", "status">>,
     <<"home", "settings">>, <<"home", "help">>,
     <<"select", "plan", "month">>, <<"back", "to", "start">>,
     <<"admin", "panel">>,
     <<"settings", "language">>, <<"settings", "notifications">>}

\* data.startswith(prefix + "_")
StartsWith(token, prefix) ==
    Len(token) > Len(prefix) /\ SubSeq(token, 1, Len(prefix)) = prefix

\* handle_callback_query: the handler its if-chain names for a token.
handle_callback_query(token) ==
    IF StartsWith(token, <<"set", "lang">>) THEN "handle_language_selection"
    ELSE IF StartsWith(token, <<"age", "verify">>) THEN "handle_age_verification"
    ELSE IF token = <<"terms", "accept">> THEN "handle_terms_acceptance"
    ELSE IF StartsWith(token, <<"home">>) THEN "handle_home_menu_buttons"
    ELSE IF StartsWith(token, <<"select", "plan">>) THEN "select_plan"
    ELSE IF token = <<"back", "to", "start">> THEN "start"
    ELSE "not_recognized"

\* register_handlers_safely: the callback handlers the dispatcher holds, in
\* the order they were added, each with its pattern.
callback_handlers ==
    << [handler |-> "handle_language_selection", exact |-> FALSE, pattern |-> <<"set", "lang">>],
       [handler |-> "handle_age_verification", exact |-> FALSE, pattern |-> <<"age", "verify">>],
       [handler |-> "handle_terms_acceptance", exact |-> TRUE, pattern |-> <<"terms", "accept">>],
       [handler |-> "handle_home_menu_buttons", exact |-> FALSE, pattern |-> <<"home">>] >>

\* CallbackQueryHandler: re.match(pattern, data)
PatternMatches(h, token) ==
    IF h.exact THEN token = h.pattern ELSE StartsWith(token, h.pattern)

\* The dispatcher: the first registered handler whose pattern matches, or none.
Dispatch(token) ==
    LET hits == {i \in 1..Len(callback_handlers) :
                    PatternMatches(callback_handlers[i], token)}
    IN IF hits = {} THEN "none"
       ELSE callback_handlers[CHOOSE i \in hits : \A j \in hits : i <= j].handler

\* handle_home_menu_buttons: the screen for the action after "home_".
HomeScreen(action) ==
    IF action \in {"plans", "status", "settings", "help"} THEN action
    ELSE "not_recognized"

\* handle_home_menu_buttons for one user and one token.
home_menu_buttons(u, action) ==
    /\ AnalyticsRoom(1)
    /\ \E analytics_ok \in AnalyticsOutcomes :
         analytics_events' = log_analytics_event_rows(
             analytics_events, u, "menu_action", analytics_ok)
    /\ last' = Reply("home", u, HomeScreen(action))
    /\ UNCHANGED <<now, tz, boot, run, admin_user_id, users, subscriptions, audit_log, audit_seq, restricted,
                   enable_analytics, stage, storeVars>>

\* A callback query from any user: the dispatcher runs the handler registered
\* for the token; a token no pattern matches runs nothing and gets no answer.
CallbackQuery ==
    \E u \in UserIds, token \in CallbackTokens :
        \/ /\ Dispatch(token) = "handle_language_selection"
           /\ language_selection(u, token[Len(token)])
        \/ /\ Dispatch(token) = "handle_age_verification"
           /\ age_verification(u, token[Len(token)])
        \/ /\ Dispatch(token) = "handle_terms_acceptance"
           /\ \E telegram_lang \in TelegramLangs, failed \in StoreCalls :
                terms_acceptance(u, telegram_lang, failed)
        \/ /\ Dispatch(token) = "handle_home_menu_buttons"
           /\ home_menu_buttons(u, token[2])
        \/ /\ Dispatch(token) = "none"
           /\ last' = Reply("unhandled", u, "none")
           /\ UNCHANGED <<now, tz, boot, run, admin_user_id, users, subscriptions, audit_log, audit_seq,
                          restricted, enable_analytics, analytics_events, stage,
                          storeVars>>

NextRouter ==
    \/ Start
    \/ CallbackQuery

SpecRouter == Init /\ [][NextRouter]_vars

\* The onboarding flow in a UTC process without an administrator, with
\* analytics switched on or off.
InitAnalytics ==
    /\ now = 0
    /\ tz = 0
    /\ admin_user_id = NoId
    /\ users = << >>
    /\ subscriptions = << >>
    /\ audit_log = << >>
    /\ audit_seq = 0
    /\ boot = NoBoot
    /\ run = NoRun
    /\ restricted = {}
    /\ last = NoEvent
    /\ enable_analytics \in BOOLEAN
    /\ analytics_events = << >>
    /\ stage = [u \in UserIds |-> "new"]
    /\ users_table = << >>
    /\ lock = NoId
    /\ txn = [t \in Threads |-> Idle]

SpecAnalytics == InitAnalytics /\ [][NextOnboarding]_vars

\* ----------------------------------------------------------- maintenance
\* cleanup_old_data: the action tags its DELETE leaves alone.
ProtectedActions == {"user_banned", "admin_action"}

\* The retention windows the maintenance job is called with, in days.
RetentionDays == {0, 1}

\* cleanup_old_data: cutoff_date = datetime.now() - timedelta(days=days_to_keep),
\* the naive local time, compared with created_at columns that hold UTC.
cutoff_date(days_to_keep) == LocalNow - timedelta(days_to_keep)

\* DELETE FROM analytics_events WHERE created_at < ?
cleanup_analytics_rows(days_to_keep) ==
    SelectSeq(analytics_events, LAMBDA r : ~(r.created_at < cutoff_date(days_to_keep)))

\* DELETE FROM audit_log WHERE created_at < ? AND action NOT IN (...)
CleanupMatches(r, days_to_keep) ==
    r.created_at < cutoff_date(days_to_keep) /\ r.action \notin ProtectedActions

cleanup_audit_rows(days_to_keep) ==
    SelectSeq(audit_log, LAMBDA r : ~CleanupMatches(r, days_to_keep))

\* The statements of cleanup_old_data that may raise; each DELETE before it is
\* committed by then.
CleanupStatements == {"none", "analytics", "audit", "vacuum"}

\* cleanup_old_data(days_to_keep): the two DELETEs and VACUUM; the except
\* clause returns {'error': ...}.  count is audit_deleted.
Cleanup ==
    \E days_to_keep \in RetentionDays, failed \in CleanupStatements :
        /\ analytics_events' = IF failed = "analytics" THEN analytics_events
                               ELSE cleanup_analytics_rows(days_to_keep)
        /\ audit_log' = IF failed \in {"analytics", "audit"} THEN audit_log
                        ELSE cleanup_audit_rows(days_to_keep)
        /\ last' = [Reply("cleanup", NoId, IF failed = "none" THEN "cleaned" ELSE "error")
                      EXCEPT !.days = days_to_keep,
                             !.count = IF failed = "none"
                                       THEN Len(audit_log) - Len(audit_log')
                                       ELSE 0]
        /\ UNCHANGED <<now, tz, boot, run, admin_user_id, users, subscriptions, audit_seq, restricted,
                       enable_analytics, stage, storeVars>>

\* log_audit_event called by the administration module with a protected tag.
LogAudit ==
    \E user_id \in UserIds, action \in ProtectedActions, storage_ok \in BOOLEAN :
        /\ admin_user_id # NoId
        /\ Len(audit_log) < MaxAudit
        /\ audit_seq < MaxAuditSeq
        /\ audit_log' = log_audit_event_rows(user_id, admin_user_id, action, "", 0,
                                             storage_ok)
        /\ audit_seq' = audit_seq_after(audit_log')
        /\ last' = [Reply("log_audit", admin_user_id, "none")
                      EXCEPT !.target = user_id,
                             !.audit = log_audit_event(user_id, admin_user_id, storage_ok)]
        /\ UNCHANGED <<now, tz, boot, run, admin_user_id, users, subscriptions, restricted,
                       enable_analytics, analytics_events, stage, storeVars>>

\* The third argument an administrator types in the maintenance runs: a
\* number of days, or a text that is not a number.
MaintenanceDays == {0, 1, NotANumber}

\* /grant <user_id> month <days> from the administrator, while the audit log
\* has room for its entry.
GrantByAdmin ==
    \E user_id \in UserIds, typed_days \in MaintenanceDays, failed \in GrantStoreCalls :
        /\ GrantRouted(admin_user_id)
        /\ Len(subscriptions) < MaxSubs
        /\ Len(audit_log) < MaxAudit
        /\ audit_seq < MaxAuditSeq
        /\ grant_access(admin_user_id, user_id, "month", typed_days, failed)

\* One administrator, every clock offset, analytics switched off.
InitMaintenance ==
    /\ now = 0
    /\ tz \in TimeZones
    /\ admin_user_id = 1
    /\ users = << >>
    /\ subscriptions = << >>
    /\ audit_log = << >>
    /\ audit_seq = 0
    /\ boot = NoBoot
    /\ run = NoRun
    /\ restricted = {}
    /\ last = NoEvent
    /\ enable_analytics = FALSE
    /\ analytics_events = << >>
    /\ stage = [u \in UserIds |-> "new"]
    /\ users_table = << >>
    /\ lock = NoId
    /\ txn = [t \in Threads |-> Idle]

\* The audit log under the maintenance job.
NextMaintenance == Tick \/ FirstContact \/ GrantByAdmin \/ LogAudit \/ Cleanup

SpecMaintenance == InitMaintenance /\ [][NextMaintenance]_vars

\* The subscriptions under the expiration sweeper.
NextSweeper == Tick \/ FirstContact \/ GrantByAdmin \/ ExpireTick

SpecSweeper == InitMaintenance /\ [][NextSweeper]_vars

\* ------------------------------------------------------ the entry point
\* BotConfig.validate: the token is present and at least 40 characters long.
config_validate(token) == token = "valid"

\* fetchall() of "SELECT 1 as test": one sqlite3.Row.
SelectOne == <<[test |-> 1]>>

\* result[0] != 1 on a sqlite3.Row: a Row compares equal to Rows only, so it
\* differs from every int.
RowDiffers(row, n) == TRUE

\* test_database_connection on a database that holds the given tables.
test_database_connection(tables) ==
    IF SelectOne = << >> \/ RowDiffers(SelectOne[1], 1) THEN FALSE
    ELSE ExpectedTables \subseteq tables

\* validate_environment: the configuration, then the database test.
validate_environment(token, tables) ==
    IF ~config_validate(token) THEN FALSE
    ELSE test_database_connection(tables)

\* create_tables: CREATE TABLE IF NOT EXISTS for every table of the schema.
create_tables(tables) == tables \cup SeqToSet(SchemaTables)

\* main(): validate_environment, create_tables, the scheduler, run_bot.  The
\* process exits with status 1 when validation fails or run_bot gives up;
\* otherwise the bot polls.
main ==
    \E bot_ok \in BOOLEAN :
        /\ boot.pc = "start"
        /\ boot' = IF ~validate_environment(boot.token, boot.tables)
                   THEN [boot EXCEPT !.pc = "exit_1", !.failed = "validate_environment"]
                   ELSE [boot EXCEPT !.tables = create_tables(@),
                                     !.pc = IF bot_ok THEN "polling" ELSE "exit_1",
                                     !.failed = IF bot_ok THEN "none" ELSE "run_bot"]
        /\ UNCHANGED <<now, tz, run, admin_user_id, users, subscriptions, audit_log,
                       audit_seq, restricted, last, enable_analytics, analytics_events,
                       stage, storeVars>>

\* The process is started on a database file that holds a prefix of the
\* schema's tables (none when it is fresh), with any token, administrator and
\* clock offset.
InitStartup ==
    /\ now = 0
    /\ tz \in TimeZones
    /\ admin_user_id \in {NoId, 1}
    /\ users = << >>
    /\ subscriptions = << >>
    /\ audit_log = << >>
    /\ audit_seq = 0
    /\ \E token \in Tokens, k \in 0..Len(SchemaTables) :
         boot = [NoBoot EXCEPT !.pc = "start", !.token = token,
                               !.at_start = SeqToSet(SubSeq(SchemaTables, 1, k)),
                               !.tables = SeqToSet(SubSeq(SchemaTables, 1, k))]
    /\ run = NoRun
    /\ restricted = {}
    /\ last = NoEvent
    /\ enable_analytics = FALSE
    /\ analytics_events = << >>
    /\ stage = [u \in UserIds |-> "new"]
    /\ users_table = << >>
    /\ lock = NoId
    /\ txn = [t \in Threads |-> Idle]

SpecStartup == InitStartup /\ [][main]_vars

\* -------------------------------------------------------- the retry loop
\* The wait taken after every failed attempt, the last one included.
RetrySleepsAlways(attempt, max_retries) == TRUE

\* run_bot_with_retry: `if attempt < config.max_retries - 1` before time.sleep
RetrySleeps(attempt, max_retries) == attempt < max_retries - 1

\* The except clauses for TelegramError and Exception: the wait, if any, then
\* `continue` with the next value of attempt.
RetryFailed(error) ==
    [run EXCEPT !.failed = @ + 1,
                !.outcome = error,
                !.pc = IF RetrySleeps(run.attempt, run.max_retries)
                       THEN "sleep" ELSE "loop",
                !.attempt = IF RetrySleeps(run.attempt, run.max_retries)
                            THEN @ ELSE @ + 1]

\* What ends an attempt before it polls: the Updater or start_polling raises
\* TelegramError, or register_handlers_safely returns False.
StartErrors == {"TelegramError", "Exception"}

\* One pass of the for loop up to updater.idle(): the attempt is logged, then
\* it fails or the bot polls.
RetryAttempt ==
    \E outcome \in StartErrors \cup {"polling"} :
        /\ run.pc = "loop"
        /\ run.attempt < run.max_retries
        /\ run' = IF outcome = "polling"
                  THEN [run EXCEPT !.started = @ + 1, !.pc = "idle", !.outcome = outcome]
                  ELSE [RetryFailed(outcome) EXCEPT !.started = @ + 1]
        /\ UNCHANGED <<now, tz, boot, admin_user_id, users, subscriptions, audit_log,
                       audit_seq, restricted, last, enable_analytics, analytics_events,
                       stage, storeVars>>

\* updater.idle() ends: a clean stop or Ctrl+C returns True, an error raised
\* while the bot runs is handled like a failed start.
RetryIdle ==
    \E outcome \in StartErrors \cup {"stopped", "KeyboardInterrupt"} :
        /\ run.pc = "idle"
        /\ run' = IF outcome \in StartErrors
                  THEN RetryFailed(outcome)
                  ELSE [run EXCEPT !.pc = "returned", !.outcome = outcome,
                                   !.result = "True"]
        /\ UNCHANGED <<now, tz, boot, admin_user_id, users, subscriptions, audit_log,
                       audit_seq, restricted, last, enable_analytics, analytics_events,
                       stage, storeVars>>

\* time.sleep(config.retry_delay) inside the except clause ends, or Ctrl+C
\* interrupts it: no except clause covers that, so the exception leaves the
\* function.
RetrySleep ==
    \E interrupted \in BOOLEAN :
        /\ run.pc = "sleep"
        /\ run' = IF interrupted
                  THEN [run EXCEPT !.pc = "raised", !.outcome = "KeyboardInterrupt"]
                  ELSE [run EXCEPT !.pc = "loop", !.slept = @ + 1, !.attempt = @ + 1]
        /\ UNCHANGED <<now, tz, boot, admin_user_id, users, subscriptions, audit_log,
                       audit_seq, restricted, last, enable_analytics, analytics_events,
                       stage, storeVars>>

\* range(config.max_retries) is exhausted: return False.
RetryExhausted ==
    /\ run.pc = "loop"
    /\ run.attempt >= run.max_retries
    /\ run' = [run EXCEPT !.pc = "returned", !.result = "False"]
    /\ UNCHANGED <<now, tz, boot, admin_user_id, users, subscriptions, audit_log,
                   audit_seq, restricted, last, enable_analytics, analytics_events,
                   stage, storeVars>>

\* run_bot_with_retry is called with MAX_RETRIES from the environment, by a
\* process with any administrator and clock offset.
InitRetry ==
    /\ now = 0
    /\ tz \in TimeZones
    /\ admin_user_id \in {NoId, 1}
    /\ users = << >>
    /\ subscriptions = << >>
    /\ audit_log = << >>
    /\ audit_seq = 0
    /\ boot = NoBoot
    /\ \E max_retries \in 0..MaxRetries :
         run = [NoRun EXCEPT !.pc = "loop", !.max_retries = max_retries]
    /\ restricted = {}
    /\ last = NoEvent
    /\ enable_analytics = FALSE
    /\ analytics_events = << >>
    /\ stage = [u \in UserIds |-> "new"]
    /\ users_table = << >>
    /\ lock = NoId
    /\ txn = [t \in Threads |-> Idle]

NextRetry == RetryAttempt \/ RetryIdle \/ RetrySleep \/ RetryExhausted

\* The loop is sequential code, and every attempt and every wait ends.
SpecRetry == InitRetry /\ [][NextRetry]_vars /\ WF_vars(NextRetry)

\* ------------------------------------------------------------ properties
Rows == SeqToSet(subscriptions)

RowsOf(u) == {r \in Rows : r.user_id = u}

\* The row the last successful insert added.
Newest == subscriptions[Len(subscriptions)]

\* The records of users.json the simple variant may hold for one user.
SimpleUserData ==
    [subscription_active : BOOLEAN,
     subscription_until : {<< >>} \cup {<<t>> : t \in (0 - 1)..(MaxTime + 1)}]

\* C1: the activity check never reports a user active once the end date of the
\* subscription has passed on the local clock, whether or not the sweeper has
\* set the stored status to expired: is_user_subscribed reports active only with
\* a row of that user that ends in the future, the main menu shows an active
\* subscription only to such a user, and is_user_active is false for every
\* record of the simple variant whose subscription_until has passed.
ActivityCheckIsTimeBased ==
    /\ \A u \in UserIds : \A r \in is_user_subscribed(u) :
         r.is_active =>
           \E s \in RowsOf(u) : s.id = r.subscription /\ LocalNow < s.end_date
    /\ (last.screen = "main_menu" /\ last.subscribed) =>
         \E s \in RowsOf(last.actor) : LocalNow < s.end_date
    /\ \A d \in SimpleUserData :
         (d.subscription_until # << >> /\ d.subscription_until[1] <= LocalNow)
           => ~is_user_active(d)

\* C1 witness: a subscription that has run its days and lapsed on the local
\* clock, still stored as active and still returned by the query, and the check
\* reports it inactive.
LapsedButStoredActive ==
    \E s \in Rows :
        /\ s.status = "active"
        /\ s.start_date < s.end_date
        /\ s.end_date <= LocalNow
        /\ s \in get_active_subscription(s.user_id)
        /\ \A r \in is_user_subscribed(s.user_id) : ~r.is_active

\* C2 as stated, on durations of at least one day: a grant that inserted its
\* row is followed, before the clock moves, by a check that returns (true, that
\* row), and the row ends exactly `days` days after it starts.
ActivateThenCheckReturnsThatRow ==
    (last.handler = "grant" /\ last.screen = "granted" /\ last.days >= 1) =>
        /\ Newest.end_date = Newest.start_date + last.days * DayTicks
        /\ is_user_subscribed(Newest.user_id)
             = {[is_active |-> TRUE, subscription |-> Newest.id]}

\* C2 amended: the row a grant inserted is active, starts now and ends exactly
\* `days` days after it starts; when `days` is at least one, a check before the
\* clock moves returns true with a row of that user that ends no earlier than
\* the new row, and returns the new row itself when no other active row of the
\* user ends as late.
ActivateThenCheckReturnsLatestEnding ==
    (last.handler = "grant" /\ last.screen = "granted") =>
        /\ Newest.start_date = LocalNow
        /\ Newest.status = "active"
        /\ Newest.end_date = Newest.start_date + last.days * DayTicks
        /\ (last.days >= 1) =>
             /\ \A r \in is_user_subscribed(Newest.user_id) :
                  /\ r.is_active
                  /\ \E s \in RowsOf(Newest.user_id) :
                       s.id = r.subscription /\ s.end_date >= Newest.end_date
             /\ (\A s \in RowsOf(Newest.user_id) :
                    (s.id # Newest.id /\ s.status = "active")
                      => s.end_date < Newest.end_date)
                  => is_user_subscribed(Newest.user_id)
                       = {[is_active |-> TRUE, subscription |-> Newest.id]}

\* C2 witness: a one-day grant to a user who holds a longer subscription; the
\* check returns the longer one.
GrantedBesideLongerSubscription ==
    /\ last.handler = "grant" /\ last.screen = "granted" /\ last.days = 1
    /\ \E s \in RowsOf(Newest.user_id) :
         /\ s.end_date > Newest.end_date
         /\ is_user_subscribed(Newest.user_id)
              = {[is_active |-> TRUE, subscription |-> s.id]}

GrantOnlyByAdministrator ==
    /\ [](last.handler = "grant" =>
            (admin_user_id # NoId /\ last.actor = admin_user_id))
    /\ [](\A a \in SeqToSet(audit_log) :
            admin_user_id # NoId /\ a.admin_id = admin_user_id)
    /\ [][(Len(subscriptions') > Len(subscriptions) \/ Len(audit_log') > Len(audit_log))
            => (admin_user_id # NoId /\ last'.handler = "grant"
                  /\ last'.actor = admin_user_id)]_vars
    /\ [][last'.handler = "grant_unrouted" =>
            (subscriptions' = subscriptions /\ audit_log' = audit_log
               /\ users' = users)]_vars

\* C4 witness: a user who is in the users table and is not the configured
\* administrator sent /grant, and no table holds a row.
NonAdminGrantIgnored ==
    /\ admin_user_id # NoId
    /\ last.handler = "grant_unrouted"
    /\ last.actor # admin_user_id
    /\ last.actor \in DOMAIN users
    /\ admin_user_id \in DOMAIN users
    /\ subscriptions = << >>
    /\ audit_log = << >>

\* C5 as stated: a grant with a plan id that is not in the catalog inserts no
\* row, so every subscription row carries a plan of the catalog.
UnknownPlanInsertsNoRow ==
    \A s \in Rows : s.plan_type \in PlanIds

\* C6: a successful pass of expire_subscriptions turns exactly the rows its
\* WHERE clause matches from active to expired and returns their number; a
\* second successful pass right after it, with no grant and no clock tick in
\* between, changes no row and returns zero.
ExpireIsIdempotent ==
    /\ [][(last'.handler = "expire" /\ last'.screen = "expired") =>
            /\ Len(subscriptions') = Len(subscriptions)
            /\ \A i \in 1..Len(subscriptions) :
                 IF subscriptions[i].status = "active"
                      /\ subscriptions[i].end_date <= CURRENT_TIMESTAMP
                 THEN subscriptions'[i] = [subscriptions[i] EXCEPT !.status = "expired"]
                 ELSE subscriptions'[i] = subscriptions[i]
            /\ last'.count =
                 Cardinality({i \in 1..Len(subscriptions) :
                                subscriptions[i].status # subscriptions'[i].status})
            /\ (last.handler = "expire" /\ last.screen = "expired") =>
                 (last'.count = 0 /\ subscriptions' = subscriptions)]_vars
    /\ []((last.handler = "expire" /\ last.screen = "expired" /\ last.again)
            => last.count = 0)

\* C6 witness: a second successful pass in a row returned zero, with a row
\* that an earlier pass expired.
SecondPassReturnedZero ==
    /\ last.handler = "expire" /\ last.screen = "expired" /\ last.again
    /\ last.count = 0
    /\ \E s \in Rows : s.status = "expired"

\* C7: when create_subscription fails, grant_access appends no audit entry and
\* answers that the grant failed; an audit entry is appended only together with
\* the subscription row it records.  (A grant whose arguments int() rejects
\* never calls create_subscription and is answered by the except clause.)
AuditOnlyAfterInsert ==
    /\ [][(last'.handler = "grant" /\ last'.screen # GrantExceptionScreen) =>
            /\ (Len(subscriptions') = Len(subscriptions)) =>
                 (audit_log' = audit_log /\ last'.screen = "grant_failed")
            /\ (audit_log' # audit_log) =>
                 /\ Len(subscriptions') = Len(subscriptions) + 1
                 /\ Len(audit_log') = Len(audit_log) + 1
                 /\ SubSeq(audit_log', 1, Len(audit_log)) = audit_log
                 /\ audit_log'[Len(audit_log')].action = "grant_access"
                 /\ audit_log'[Len(audit_log')].user_id
                      = subscriptions'[Len(subscriptions')].user_id]_vars
    /\ [](Len(audit_log) <= Len(subscriptions))

\* C7 witness: a grant whose insert failed although the target and the
\* administrator are both in the users table; the audit log is empty.
GrantFailedWithoutAudit ==
    /\ last.handler = "grant" /\ last.screen = "grant_failed"
    /\ DOMAIN users = UserIds
    /\ audit_log = << >>

\* C8 as stated: a grant that reports success has inserted a zero-payment
\* active subscription and an audit entry tagged grant_access that names the
\* administrator, the target user, the plan and the duration.
GrantSuccessHasAuditEntry ==
    (last.handler = "grant" /\ last.screen = "granted") =>
        /\ Newest.payment_amount = 0 /\ Newest.status = "active"
        /\ \E a \in SeqToSet(audit_log) :
             /\ a.action = "grant_access"
             /\ a.admin_id = last.actor
             /\ a.user_id = Newest.user_id
             /\ a.plan_type = Newest.plan_type
             /\ a.days = last.days

\* C9 as stated: /start from a user who has no row in the users table yet is
\* answered with the language gate.
FirstContactGetsLanguageGate ==
    [][(last'.handler = "start" /\ last'.screen # "error"
          /\ last'.actor \notin DOMAIN users)
         => last'.screen = "language_gate"]_vars

\* C10 as stated: a user who answered the age gate with no is never shown the
\* terms or the main menu afterwards.
AgeRestrictedIsTerminal ==
    (last.actor \in restricted) => (last.screen \notin {"terms_gate", "main_menu"})

\* C11 as stated: a user who sends /start right after reaching the age gate or
\* the terms gate is shown that gate again.
RestartResumesAtGate ==
    [][(last'.handler = "start" /\ last'.screen # "error"
          /\ last.actor = last'.actor
          /\ last.screen \in {"age_gate", "terms_gate"})
         => last'.screen = last.screen]_vars

\* The rows of users_table.
UserRows == SeqToSet(users_table)

\* C12: create_user never leaves two rows with one telegram_id, whatever the
\* threads that call it do: users_table holds at most one row per telegram_id
\* and per rowid, it holds a row for exactly the telegram_ids of users, and a
\* create_user that changes the table leaves one row for its telegram_id,
\* carrying the profile field of the call, and every other user's row as it
\* was.
UpsertNeverDuplicates ==
    /\ [](\A i, j \in 1..Len(users_table) :
            i # j => /\ users_table[i].telegram_id # users_table[j].telegram_id
                     /\ users_table[i].id # users_table[j].id)
    /\ []({r.telegram_id : r \in UserRows} = DOMAIN users)
    /\ [][users_table' # users_table =>
            \E t \in Threads :
                /\ txn[t].op = "create_user" /\ lock = t
                /\ Cardinality({i \in 1..Len(users_table') :
                                  users_table'[i].telegram_id = txn[t].user_id}) = 1
                /\ \A r \in SeqToSet(users_table') :
                     IF r.telegram_id = txn[t].user_id
                     THEN r.username = txn[t].username
                     ELSE r \in UserRows]_vars

\* C12 witness: a user contacted again under another username holds one row,
\* with the new username and a new rowid, beside the row of another user.
RecontactReplacedRow ==
    /\ Len(users_table) = 2
    /\ \E r \in UserRows : r.telegram_id = 1 /\ r.id = 3 /\ r.username = "b"
    /\ \E r \in UserRows : r.telegram_id = 2 /\ r.id = 2

\* The windows get_expiring_subscriptions is asked for, in days.
ExpiringDays == {0, 1, 3}

\* C13 as stated: get_expiring_subscriptions(d) returns only active rows that
\* end between now and now + d days, and every active row that ends after now
\* and no later than now + d days (a row that ends exactly now may or may not
\* be returned).
ExpiringReturnsExactlyTheWindow ==
    \A d \in ExpiringDays :
        /\ \A s \in get_expiring_subscriptions(d) :
             /\ s.status = "active"
             /\ LocalNow <= s.end_date
             /\ s.end_date <= LocalNow + d * DayTicks
        /\ \A s \in Rows :
             (s.status = "active" /\ LocalNow < s.end_date
                /\ s.end_date <= LocalNow + d * DayTicks)
               => s \in get_expiring_subscriptions(d)

\* The threads with a mutating transaction open.
InTransaction == {t \in Threads : txn[t] # Idle}

\* C14 as stated: every thread with a mutating transaction open holds the
\* lock, so no two mutating transactions are open at the same time.
MutatingCallsHoldLock ==
    /\ \A t \in InTransaction : lock = t
    /\ Cardinality(InTransaction) <= 1

\* C15 as stated: when the audit insert of a grant fails, log_audit_event does
\* not return a value to grant_access: the failure reaches its caller as an
\* error.
AuditFailurePropagates ==
    [][(last'.handler = "grant" /\ Len(subscriptions') > Len(subscriptions)
          /\ audit_log' = audit_log)
         => last'.audit = "raised"]_vars

\* C16: log_analytics_event never raises (it returns True or False, False when
\* the insert fails with analytics on, True without any insert with analytics
\* off); with analytics off no handler ever writes a row; with analytics on a
\* handler only appends rows; and every handler answers its user whether or not
\* its analytics row was written: the language and age callbacks with the
\* screen their input alone decides, /start and the terms callback with the
\* menu, the language gate or the error of a failed users call.
AnalyticsNeverBlocks ==
    /\ [](\A u \in UserIds, storage_ok \in BOOLEAN :
            /\ log_analytics_event(u, storage_ok) \in {"True", "False"}
            /\ ~enable_analytics => log_analytics_event(u, storage_ok) = "True"
            /\ (enable_analytics /\ ~storage_ok)
                 => log_analytics_event(u, storage_ok) = "False")
    /\ [](~enable_analytics => analytics_events = << >>)
    /\ [][/\ Len(analytics_events') >= Len(analytics_events)
          /\ SubSeq(analytics_events', 1, Len(analytics_events)) = analytics_events
          /\ last'.handler \in {"start", "terms_accept"} =>
                last'.screen \in {"main_menu", "language_gate", "error"}
          /\ last'.handler = "set_lang" =>
                last'.screen = IF last'.actor \in DOMAIN users THEN "age_gate" ELSE "error"
          /\ last'.handler = "age_verify" =>
                last'.screen \in {"terms_gate", "age_restricted"}]_vars

\* C16 witness: with analytics on, the first /start of a user wrote no
\* analytics row (the user had no row in users yet, or the storage failed) and
\* was answered with the main menu.
StartAnsweredWithoutAnalyticsRow ==
    /\ enable_analytics
    /\ analytics_events = << >>
    /\ last.handler = "start"
    /\ last.screen = "main_menu"
    /\ DOMAIN users = {last.actor}

\* C17: create_subscription for a user_id that has no row in users returns no
\* id and leaves the subscriptions table as it was; a grant that names such a
\* user answers that it failed, calls no audit insert, and no subscription row
\* and no audit entry of that user exists; every subscription row and every
\* audit entry belongs to a user of the users table.
UnknownUserInsertsNothing ==
    /\ \A u \in UserIds \ DOMAIN users : \A storage_ok \in BOOLEAN :
         /\ create_subscription_id(u, storage_ok) = NoId
         /\ create_subscription_rows(u, "month", LocalNow, LocalNow + timedelta(1), 0,
                                     storage_ok) = subscriptions
    /\ (last.handler = "grant" /\ last.target \notin DOMAIN users) =>
         /\ last.screen \in {"grant_failed", GrantExceptionScreen}
         /\ last.audit = "none"
         /\ RowsOf(last.target) = {}
         /\ \A a \in SeqToSet(audit_log) : a.user_id # last.target
    /\ \A s \in Rows : s.user_id \in DOMAIN users
    /\ \A a \in SeqToSet(audit_log) : a.user_id \in DOMAIN users

\* C17 witness: the administrator, who is in the users table, granted a plan to
\* a user who is not, while another subscription exists; the grant failed.
GrantToUnknownUserFailed ==
    /\ last.handler = "grant"
    /\ last.actor \in DOMAIN users
    /\ last.target \notin DOMAIN users
    /\ last.screen = "grant_failed"
    /\ subscriptions # << >>

\* C18 as stated: the router has a handler for every token of its table and the
\* not-recognized acknowledgment for every other token: for every token the
\* dispatcher runs what the table names, and no callback is left without a
\* handler and without an answer.
RouterFollowsTable ==
    /\ last.handler # "unhandled"
    /\ \A token \in CallbackTokens : Dispatch(token) = handle_callback_query(token)

\* C19 as stated: an onboarding event that the transition table does not list
\* for the state of its user, who is not ready, is answered with the
\* unrecognized-action response and shows no gate and no menu.
OnboardingEventsAreOrdered ==
    [][/\ (last'.handler = "set_lang" /\ stage[last'.actor] \notin {"new", "ready"})
            => last'.screen = "not_recognized"
       /\ (last'.handler = "age_verify"
             /\ stage[last'.actor] \notin {"language_selected", "ready"})
            => last'.screen = "not_recognized"
       /\ (last'.handler = "terms_accept"
             /\ stage[last'.actor] \notin {"age_verified", "ready"})
            => last'.screen = "not_recognized"]_vars

\* C20 as stated: /start or an onboarding event from a user who is ready is
\* answered with the main menu (unless a users call fails), and the user stays
\* ready.
ReadyUserGetsMainMenu ==
    [][(stage[last'.actor] = "ready" /\ last'.screen # "error"
          /\ last'.handler \in {"start", "set_lang", "age_verify", "terms_accept"})
         => (last'.screen = "main_menu" /\ stage'[last'.actor] = "ready")]_vars

\* C21: once a subscription row exists, no operation deletes it or changes its
\* id, user, plan, start date, end date or amount; the only change is the status
\* going from active to expired, made by a pass of expire_subscriptions; an
\* expired row never becomes active again; and a successful grant, also to a
\* user who already holds a row, appends one new active row for its target and
\* leaves every existing row as it was.
SubscriptionRowsOnlyExpire ==
    [][/\ Len(subscriptions') >= Len(subscriptions)
       /\ \A i \in 1..Len(subscriptions) :
            /\ [subscriptions'[i] EXCEPT !.status = subscriptions[i].status]
                 = subscriptions[i]
            /\ subscriptions'[i].status # subscriptions[i].status =>
                 /\ subscriptions[i].status = "active"
                 /\ subscriptions'[i].status = "expired"
                 /\ last'.handler = "expire"
       /\ (last'.handler = "grant" /\ last'.screen = "granted") =>
            /\ Len(subscriptions') = Len(subscriptions) + 1
            /\ subscriptions'[Len(subscriptions')].user_id = last'.target
            /\ subscriptions'[Len(subscriptions')].status = "active"
            /\ \A i \in 1..Len(subscriptions) : subscriptions'[i] = subscriptions[i]
       /\ last'.handler \notin {"grant", "expire"} => subscriptions' = subscriptions]_vars

\* C21 witness: a second grant to a user whose first row the sweeper expired:
\* the user holds the expired row and the new active one.
SecondGrantBesideExpiredRow ==
    /\ last.handler = "grant"
    /\ last.screen = "granted"
    /\ Len(subscriptions) = 2
    /\ subscriptions[1].user_id = last.target
    /\ subscriptions[2].user_id = last.target
    /\ subscriptions[1].status = "expired"
    /\ subscriptions[2].status = "active"

\* C22: audit entries are append-only.  A step either leaves the audit log as
\* it is, or appends one entry, or is a run of the maintenance cleanup; the
\* cleanup updates no entry, and every entry it deletes carries an action tag
\* outside the protected set and was written more than the retention window
\* before the current time, so that no protected and no younger entry goes.
AuditLogIsAppendOnly ==
    [][\/ audit_log' = audit_log
       \/ /\ Len(audit_log') = Len(audit_log) + 1
          /\ SubSeq(audit_log', 1, Len(audit_log)) = audit_log
       \/ /\ last'.handler = "cleanup"
          /\ SeqToSet(audit_log') \subseteq SeqToSet(audit_log)
          /\ \A r \in SeqToSet(audit_log) \ SeqToSet(audit_log') :
               /\ r.action \notin ProtectedActions
               /\ r.created_at < CURRENT_TIMESTAMP - timedelta(last'.days)]_vars

\* C23: a pass of the sweeper is always possible, whatever the passes before it
\* did; a pass during which the storage layer fails returns a count of 0 and
\* changes no subscription row; and a pass that succeeds, also right after a
\* failed one, sets every row that is active and due to expired and returns
\* their number.
SweeperFailureIsAbsorbed ==
    /\ [](ENABLED ExpireTick)
    /\ [][/\ (last'.handler = "expire" /\ last'.screen = "expire_failed") =>
               /\ subscriptions' = subscriptions
               /\ last'.count = 0
          /\ (last'.handler = "expire" /\ last'.screen = "expired") =>
               /\ \A i \in 1..Len(subscriptions) :
                    ExpireMatches(subscriptions[i]) =>
                      subscriptions'[i].status = "expired"
               /\ last'.count =
                    Cardinality({i \in 1..Len(subscriptions) :
                                   /\ subscriptions[i].status = "active"
                                   /\ subscriptions'[i].status = "expired"})]_vars

\* C23 witness: a pass of the sweeper failed while a row was active and due;
\* the row is still active and the pass reported 0.
FailedPassLeftDueRowActive ==
    /\ last.handler = "expire"
    /\ last.screen = "expire_failed"
    /\ last.count = 0
    /\ \E i \in 1..Len(subscriptions) : ExpireMatches(subscriptions[i])

\* C28: in every reachable state each subscription row whose status is expired
\* has an end date at or before the current time, on the clock the end date was
\* written with (grant_access takes start_date from datetime.now()): the sweeper
\* never expires a row whose end date is still in the future.
ExpiredRowsHaveEnded ==
    \A r \in Rows : r.status = "expired" => r.end_date <= LocalNow

\* C24: every failure inside a user-facing handler is answered with a generic
\* failure message: whenever one of the handlers has run, the user has a reply,
\* and the reply is not the text of the exception.
HandlersAnswerGenerically ==
    last.handler \in {"start", "set_lang", "age_verify", "terms_accept", "grant"} =>
        last.screen \notin {"none", GrantExceptionScreen}

\* C25: a locale chosen through language selection stays the stored locale of
\* the user across every later run of start: for a user whose row exists and
\* who has chosen a language, a run of start (the /start command, or start as
\* called after the terms were accepted) leaves language_code as it was.
ChosenLocaleSurvivesStart ==
    [][\A u \in UserIds :
         (/\ last'.handler \in {"start", "terms_accept"}
          /\ last'.actor = u
          /\ u \in DOMAIN users
          /\ stage[u] # "new") =>
             /\ u \in DOMAIN users'
             /\ users'[u].language_code = users[u].language_code]_vars

\* C26: re-contact by an existing user leaves the is_banned and is_admin flags
\* and the created_at timestamp of that user's row unchanged: whatever a step
\* does, the row a telegram_id has afterwards carries the flags and the
\* creation time of the row it had before.
RecontactKeepsFlagsAndCreation ==
    [][\A r \in SeqToSet(users_table) : \A n \in SeqToSet(users_table') :
         n.telegram_id = r.telegram_id =>
            /\ n.is_banned = r.is_banned
            /\ n.is_admin = r.is_admin
            /\ n.created_at = r.created_at]_vars

\* C27: every action token the bot places on a button it renders is routed to
\* a handler when pressed, by handle_callback_query and by the patterns
\* registered in register_handlers_safely alike: no such token falls through to
\* the unrecognized-action branch or matches no registered pattern, and no
\* press of a button is left without a handler or answered as unrecognized.
RenderedButtonsAreRouted ==
    /\ \A token \in CallbackTokens :
         /\ handle_callback_query(token) # "not_recognized"
         /\ Dispatch(token) # "none"
    /\ last.handler # "unhandled"
    /\ last.screen # "not_recognized"

\* C29: started with a valid configuration against a fresh database, main
\* creates the schema and reaches polling unless run_bot gives up: once main has
\* left its start, environment validation is not what stopped it, and the
\* tables it requires exist.
FreshStartCreatesSchema ==
    (boot.pc \notin {"off", "start"} /\ boot.token = "valid" /\ boot.at_start = {}) =>
        /\ boot.failed # "validate_environment"
        /\ ExpectedTables \subseteq boot.tables

====
